---- MODULE Spec2Model ----
(***************************************************************************)
(* Agent Registry & Discovery Platform (src/server.js).                    *)
(*                                                                         *)
(* The registry is one Node process: every request handler runs to its     *)
(* next `await` without interruption, and the handlers of different        *)
(* requests interleave at the awaits (calls to Elasticsearch and to the    *)
(* agent's origin).  The model has one action per such uninterrupted       *)
(* stretch.  Elasticsearch is the pair (docs, searchable): `docs` is what  *)
(* get-by-id reads (real time), `searchable` is what a search reads (the   *)
(* state as of the last refresh).  The card cache is node-cache's key      *)
(* table; the clock counts seconds.                                        *)
(***************************************************************************)
EXTENDS Integers, Sequences, FiniteSets, TLC

VARIABLES
  docs,        \* Elasticsearch index `agents`, real-time view: set of [_id, _source]
  searchable,  \* the same index as of its last refresh: what client.search reads
  cache,       \* agentCache.data: cache key -> [v |-> card, t |-> expiry time]
  hits,        \* cacheStats.hits
  misses,      \* cacheStats.misses
  now,         \* the clock, in seconds
  nextSweep,   \* when node-cache's periodic check fires next
  pc,          \* per request slot: the await the handler is suspended at
  req,         \* per request slot: the handler's locals (agentData / agentId)
  meta,        \* per request slot: metadata._source.url read by getCard
  out,         \* the response the last step sent, if it sent one
  hist,        \* history, per agent id: the last write to the index (by which slot, what, acknowledged or not)
  served,      \* history, per agent id: the cards getCard stored (first and last since the last invalidation)
  univ         \* the inputs of this run: the registration bodies and the agent ids requests name

vars == <<docs, searchable, cache, hits, misses, now, nextSweep, pc, req, meta, out, hist, served, univ>>

(***************************************************************************)
(* Bounds of the model.                                                    *)
(***************************************************************************)
NumSlots == 2      \* requests that can be suspended at an await at once
MaxTicks == 3      \* the clock stops after MaxTicks * TickLen seconds
MaxLookups == 3    \* hits + misses is capped (the counters are unbounded in the code)

TickLen == 150     \* seconds the clock advances in one step
Slots == 1..NumSlots
Ids == {"a1", "a2"}
Urls == {"http://u1", "http://u2"}

(***************************************************************************)
(* Program constants.                                                      *)
(***************************************************************************)
StdTTL == 300
CheckPeriod == 60

Statuses == {"active", "inactive", "maintenance"}

None == <<>>
Some(x) == <<x>>
Get(o) == o[1]

Restrict(f, S) == [x \in S |-> f[x]]

(***************************************************************************)
(* Validation: agentRegistrationSchema.  A request body is a record that   *)
(* has some of the fields; validate() reports an error or returns the      *)
(* body with the defaults filled in.                                       *)
(***************************************************************************)
RegKeys == {"agentId", "name", "description", "url", "tags", "status",
            "version", "capabilities", "location"}

\* The base url of the repository's example agent.
ExampleUrl == "http://localhost:3001"

IsUri(s) == s \in Urls \cup {ExampleUrl}

ValidCoordinates(c) ==
  /\ DOMAIN c = {"lat", "lon"}
  /\ c.lat >= -90 /\ c.lat <= 90
  /\ c.lon >= -180 /\ c.lon <= 180

ValidLocation(l) ==
  /\ DOMAIN l \subseteq {"coordinates", "city", "country"}
  /\ "coordinates" \in DOMAIN l
  /\ ValidCoordinates(l.coordinates)

RegistrationError(body) ==
  IF ~(DOMAIN body \subseteq RegKeys) THEN TRUE
  ELSE IF ~({"agentId", "name", "description", "url"} \subseteq DOMAIN body) THEN TRUE
  ELSE IF ~IsUri(body.url) THEN TRUE
  ELSE IF "status" \in DOMAIN body /\ body.status \notin Statuses THEN TRUE
  ELSE "location" \in DOMAIN body /\ ~ValidLocation(body.location)

RegDefault(f) ==
  CASE f = "tags" -> <<>>
    [] f = "status" -> "active"
    [] f = "version" -> "1.0.0"
    [] f = "capabilities" -> ""

RegistrationValue(body) ==
  [f \in DOMAIN body \cup {"tags", "status", "version", "capabilities"} |->
     IF f \in DOMAIN body THEN body[f] ELSE RegDefault(f)]

\* Elasticsearch wants a geo point as [lon, lat].
TransformLocation(l) ==
  [k \in DOMAIN l |->
     IF k = "coordinates" THEN <<l.coordinates.lon, l.coordinates.lat>> ELSE l[k]]

\* agentData: the validated value, updatedAt stamped, coordinates transformed.
\* updatedAt is the clock reading (toISOString is one-to-one and keeps the order).
AgentData(value, ts) ==
  [f \in DOMAIN value \cup {"updatedAt"} |->
     IF f = "updatedAt" THEN ts
     ELSE IF f = "location" THEN TransformLocation(value.location)
     ELSE value[f]]

(***************************************************************************)
(* Elasticsearch.                                                          *)
(***************************************************************************)
\* Variant: the document is added and an older one with the same _id is kept.
EsIndexAppend(index, id, body) ==
  index \cup {[_id |-> id, _source |-> body]}

\* client.index({id, body}): the document with that _id is replaced.
EsIndex(index, id, body) ==
  {d \in index : d._id # id} \cup {[_id |-> id, _source |-> body]}

\* client.delete({id})
EsDelete(index, id) == {d \in index : d._id # id}

EsExists(index, id) == \E d \in index : d._id = id

\* client.get({id})._source
EsGet(index, id) == (CHOOSE d \in index : d._id = id)._source

\* The document the register handler sends to the index.
IndexRequest(agentData) == [id |-> agentData.agentId, body |-> agentData]

(***************************************************************************)
(* node-cache: new NodeCache({stdTTL: 300, checkperiod: 60}).              *)
(***************************************************************************)
CacheKey(agentId) == <<"agentcard:", agentId>>

\* Variant: an entry is live until the periodic check removes it.
ExpiredWhenSwept(entry, time) == FALSE

\* An entry is live until its expiry time has passed.
Expired(entry, time) == entry.t < time

\* agentCache.get(key): the value, or nothing for an absent or expired key.
CacheGet(c, key, time) ==
  IF key \in DOMAIN c /\ ~Expired(c[key], time) THEN Some(c[key].v) ELSE None

\* Variant: a get that finds a live entry restarts its ttl.
CacheAfterGetTouch(c, key, time) ==
  IF key \in DOMAIN c
  THEN IF c[key].t < time
       THEN Restrict(c, DOMAIN c \ {key})
       ELSE [c EXCEPT ![key].t = time + StdTTL]
  ELSE c

\* agentCache.get also drops the entry it finds expired.
CacheAfterGet(c, key, time) ==
  IF key \in DOMAIN c /\ Expired(c[key], time)
  THEN Restrict(c, DOMAIN c \ {key})
  ELSE c

\* Variant: a key that is present keeps its entry.
CacheSetIfAbsent(c, key, value, time) ==
  IF key \in DOMAIN c
  THEN c
  ELSE [k \in DOMAIN c \cup {key} |->
          IF k = key THEN [v |-> value, t |-> time + StdTTL] ELSE c[k]]

\* agentCache.set(key, value): stored with the default ttl, counted from now.
CacheSet(c, key, value, time) ==
  [k \in DOMAIN c \cup {key} |->
     IF k = key THEN [v |-> value, t |-> time + StdTTL] ELSE c[k]]

\* Variant: del leaves the entry in place.
CacheDelNothing(c, key) == c

\* agentCache.del(key)
CacheDel(c, key) == Restrict(c, DOMAIN c \ {key})

\* agentCache.flushAll()
CacheFlushAll(c) == Restrict(c, {})

\* The periodic check deletes every expired entry.
CacheSweep(c, time) == Restrict(c, {k \in DOMAIN c : ~Expired(c[k], time)})

\* agentCache.getStats().keys
CacheKeys(c) == Cardinality(DOMAIN c)

\* hits / (hits + misses) || 0, as the fraction <<numerator, denominator>>.
HitRate(h, m) == IF h + m = 0 \/ h = 0 THEN <<0, 1>> ELSE <<h, h + m>>

(***************************************************************************)
(* The agent's origin and the card built from its answer.                  *)
(***************************************************************************)
\* The address getCard requests: `${metadata._source.url}/.well-known/agent.json`
CardUrl(base) == <<base, "/.well-known/agent.json">>

\* The paths the example agent answers a GET on.
ExampleRoutes == {"/agentcard", "/status", "/health"}

\* The origins that are running and reachable whenever they are asked; any
\* other origin may or may not answer a request.
Up == {ExampleUrl}

\* What the origin answers there: a payload that names the origin it came from.
\* The example agent answers on its routes only.  The agent at http://u2 sends
\* a payload that has fields of its own named agentId, cached and fetchTimestamp.
OriginPayloads(cardUrl) ==
  IF cardUrl[1] = ExampleUrl /\ cardUrl[2] \notin ExampleRoutes
  THEN {}
  ELSE IF cardUrl[1] = "http://u2"
  THEN {[origin |-> cardUrl[1], agentId |-> "theirs", cached |-> TRUE, fetchTimestamp |-> -1]}
  ELSE {[origin |-> cardUrl[1]]}

\* Variant: { agentId, cached: false, fetchTimestamp, ...response.data }
StampCardUnder(data, agentId, ts) ==
  [f \in DOMAIN data \cup {"agentId", "cached", "fetchTimestamp"} |->
     IF f \in DOMAIN data THEN data[f]
     ELSE IF f = "agentId" THEN agentId
     ELSE IF f = "cached" THEN FALSE
     ELSE ts]

\* { ...response.data, agentId, cached: false, fetchTimestamp }
StampCard(data, agentId, ts) ==
  [f \in DOMAIN data \cup {"agentId", "cached", "fetchTimestamp"} |->
     IF f = "agentId" THEN agentId
     ELSE IF f = "cached" THEN FALSE
     ELSE IF f = "fetchTimestamp" THEN ts
     ELSE data[f]]

\* Variant: a hit stamps the time of the request.
HitCardRestamped(card) ==
  [f \in DOMAIN card \cup {"cached", "fetchTimestamp"} |->
     IF f = "cached" THEN TRUE
     ELSE IF f = "fetchTimestamp" THEN now
     ELSE card[f]]

\* { ...agentCard, cached: true, fetchTimestamp: agentCard.fetchTimestamp }
HitCard(card) ==
  [f \in DOMAIN card \cup {"cached", "fetchTimestamp"} |->
     IF f = "cached" THEN TRUE
     ELSE IF f = "fetchTimestamp" THEN card.fetchTimestamp
     ELSE card[f]]

(***************************************************************************)
(* Responses.                                                              *)
(***************************************************************************)
Response(op, agentId, status, body) ==
  [op |-> op, agentId |-> agentId, status |-> status, body |-> body]

NoResponse == Response("", "", 0, None)
NoRequest == [agentId |-> ""]
NoHist == [by |-> 0, op |-> "none", acked |-> FALSE, quiet |-> FALSE, body |-> None]
NoServed == [first |-> None, last |-> None]

OthersIdle(p) == \A q \in Slots \ {p} : pc[q] = "idle"

\* Slot p takes up a request: a registration another slot has in progress is no
\* longer running alone.
Disturb(h, p) ==
  [id \in Ids |->
     IF h[id].by \notin {0, p} THEN [h[id] EXCEPT !.quiet = FALSE] ELSE h[id]]

\* The cards stored for an id are forgotten when its entry is invalidated.
Forget(id) == [served EXCEPT ![id] = NoServed]

\* A registration body with the required fields only.
Body(id, u) == [agentId |-> id, name |-> "n", description |-> "d", url |-> u]

\* The state a registry is in that has only served, at time 0, register(body)
\* for each body of `registered` and then one getCard for each id of `cached`,
\* and now serves requests drawn from `bodies`, `ids` and `queries`.
InitUniv(bodies, ids, registered, cached, queries) ==
  /\ univ = [bodies |-> bodies, ids |-> ids, queries |-> queries]
  /\ docs = {[_id |-> b.agentId, _source |-> AgentData(RegistrationValue(b), 0)] :
               b \in registered}
  /\ searchable = docs
  /\ cache = [k \in {CacheKey(id) : id \in cached} |->
               [v |-> StampCard(CHOOSE d \in OriginPayloads(CardUrl(EsGet(docs, k[2]).url)) : TRUE,
                                k[2], 0),
                t |-> 0 + StdTTL]]
  /\ hits = 0
  /\ misses = Cardinality(cached)
  /\ now = 0
  /\ nextSweep = CheckPeriod
  /\ pc = [p \in Slots |-> "idle"]
  /\ req = [p \in Slots |-> NoRequest]
  /\ meta = [p \in Slots |-> ""]
  /\ out = NoResponse
  /\ hist = [id \in Ids |-> NoHist]
  /\ served = [id \in Ids |-> NoServed]

InitWith(bodies, ids, registered, cached) == InitUniv(bodies, ids, registered, cached, {})

(***************************************************************************)
(* POST /registry                                                          *)
(***************************************************************************)
\* Request bodies the model sends.
RegBodies == univ.bodies

\* validate() fails: 400, nothing else happens.
RegisterInvalid(body) ==
  /\ RegistrationError(body)
  /\ out' = Response("register", "", 400, None)
  /\ UNCHANGED <<docs, searchable, cache, hits, misses, now, nextSweep, pc, req, meta, hist, served, univ>>

\* validate() succeeds and client.index() is carried out by Elasticsearch.
RegisterIndex(p, body) ==
  /\ pc[p] = "idle"
  /\ ~RegistrationError(body)
  /\ LET agentData == AgentData(RegistrationValue(body), now)
         r == IndexRequest(agentData)
     IN /\ docs' = EsIndex(docs, r.id, r.body)
        /\ req' = [req EXCEPT ![p] = [agentId |-> agentData.agentId]]
        /\ hist' = [Disturb(hist, p) EXCEPT ![agentData.agentId] =
                      [by |-> p, op |-> "reg", acked |-> FALSE, quiet |-> OthersIdle(p),
                       body |-> Some(body)]]
        /\ served' = Forget(agentData.agentId)
  /\ pc' = [pc EXCEPT ![p] = "reg_del"]
  /\ out' = NoResponse
  /\ UNCHANGED <<searchable, cache, hits, misses, now, nextSweep, meta, univ>>

\* validate() succeeds and client.index() throws: 500.
RegisterIndexFail(body) ==
  /\ ~RegistrationError(body)
  /\ out' = Response("register", body.agentId, 500, None)
  /\ UNCHANGED <<docs, searchable, cache, hits, misses, now, nextSweep, pc, req, meta, hist, served, univ>>

\* After the index call: agentCache.del, then client.indices.refresh is sent.
RegisterInvalidate(p) ==
  /\ pc[p] = "reg_del"
  /\ cache' = CacheDel(cache, CacheKey(req[p].agentId))
  /\ served' = Forget(req[p].agentId)
  /\ pc' = [pc EXCEPT ![p] = "reg_refresh"]
  /\ out' = NoResponse
  /\ UNCHANGED <<docs, searchable, hits, misses, now, nextSweep, req, meta, hist, univ>>

\* Variant: the handler goes on to its response without a refresh.
RegisterWithoutRefresh(p) ==
  /\ pc[p] = "reg_refresh"
  /\ pc' = [pc EXCEPT ![p] = "reg_respond"]
  /\ out' = NoResponse
  /\ UNCHANGED <<docs, searchable, cache, hits, misses, now, nextSweep, req, meta, hist, served, univ>>

\* Elasticsearch carries out the refresh: every write so far becomes searchable.
RegisterRefresh(p) ==
  /\ pc[p] = "reg_refresh"
  /\ searchable' = docs
  /\ pc' = [pc EXCEPT ![p] = "reg_respond"]
  /\ out' = NoResponse
  /\ UNCHANGED <<docs, cache, hits, misses, now, nextSweep, req, meta, hist, served, univ>>

\* The refresh throws: 500 (the document stays indexed).
RegisterRefreshFail(p) ==
  /\ pc[p] = "reg_refresh"
  /\ out' = Response("register", req[p].agentId, 500, None)
  /\ hist' = [id \in Ids |->
                IF hist[id].by = p THEN [hist[id] EXCEPT !.by = 0, !.quiet = FALSE]
                ELSE hist[id]]
  /\ pc' = [pc EXCEPT ![p] = "idle"]
  /\ req' = [req EXCEPT ![p] = NoRequest]
  /\ UNCHANGED <<docs, searchable, cache, hits, misses, now, nextSweep, meta, served, univ>>

\* res.status(201)
RegisterRespond(p) ==
  /\ pc[p] = "reg_respond"
  /\ out' = Response("register", req[p].agentId, 201, None)
  /\ hist' = [id \in Ids |->
                IF hist[id].by = p
                THEN [hist[id] EXCEPT !.by = 0, !.acked = TRUE]
                ELSE hist[id]]
  /\ pc' = [pc EXCEPT ![p] = "idle"]
  /\ req' = [req EXCEPT ![p] = NoRequest]
  /\ UNCHANGED <<docs, searchable, cache, hits, misses, now, nextSweep, meta, served, univ>>

(***************************************************************************)
(* GET /health                                                             *)
(***************************************************************************)
\* What client.cluster.health() reports.
ClusterStatuses == {"green", "yellow"}

HealthBody(esStatus, h, m) ==
  [status |-> "healthy", elasticsearch |-> esStatus,
   cache |-> [hits |-> h, misses |-> m, hitRate |-> HitRate(h, m)]]

\* client.cluster.health() answers.
Health ==
  /\ \E esStatus \in ClusterStatuses :
       out' = Response("health", "", 200, Some(HealthBody(esStatus, hits, misses)))
  /\ UNCHANGED <<docs, searchable, cache, hits, misses, now, nextSweep, pc, req, meta, hist, served, univ>>

\* client.cluster.health() throws: 503.
HealthFail ==
  /\ out' = Response("health", "", 503, Some([status |-> "unhealthy"]))
  /\ UNCHANGED <<docs, searchable, cache, hits, misses, now, nextSweep, pc, req, meta, hist, served, univ>>

(***************************************************************************)
(* GET /agent/:agentId                                                     *)
(***************************************************************************)
\* Variant: reading the metadata drops the agent's card from the cache.
GetMetadataEvict(id) ==
  /\ out' = IF EsExists(docs, id)
            THEN Response("getMetadata", id, 200, Some(EsGet(docs, id)))
            ELSE Response("getMetadata", id, 404, None)
  /\ cache' = CacheDel(cache, CacheKey(id))
  /\ UNCHANGED <<docs, searchable, hits, misses, now, nextSweep, pc, req, meta, hist, served, univ>>

GetMetadata(id) ==
  /\ out' = IF EsExists(docs, id)
            THEN Response("getMetadata", id, 200, Some(EsGet(docs, id)))
            ELSE Response("getMetadata", id, 404, None)
  /\ UNCHANGED <<docs, searchable, cache, hits, misses, now, nextSweep, pc, req, meta, hist, served, univ>>

GetMetadataFail(id) ==
  /\ out' = Response("getMetadata", id, 500, None)
  /\ UNCHANGED <<docs, searchable, cache, hits, misses, now, nextSweep, pc, req, meta, hist, served, univ>>

(***************************************************************************)
(* DELETE /agent/:agentId                                                  *)
(***************************************************************************)
\* client.delete() is carried out by Elasticsearch and succeeds.
DeleteIndex(p, id) ==
  /\ pc[p] = "idle"
  /\ EsExists(docs, id)
  /\ docs' = EsDelete(docs, id)
  /\ req' = [req EXCEPT ![p] = [agentId |-> id]]
  /\ hist' = [Disturb(hist, p) EXCEPT ![id] =
                [by |-> p, op |-> "del", acked |-> FALSE, quiet |-> FALSE, body |-> None]]
  /\ served' = Forget(id)
  /\ pc' = [pc EXCEPT ![p] = "del_cache"]
  /\ out' = NoResponse
  /\ UNCHANGED <<searchable, cache, hits, misses, now, nextSweep, meta, univ>>

\* client.delete() answers 404.
DeleteNotFound(id) ==
  /\ ~EsExists(docs, id)
  /\ out' = Response("deleteAgent", id, 404, None)
  /\ UNCHANGED <<docs, searchable, cache, hits, misses, now, nextSweep, pc, req, meta, hist, served, univ>>

\* client.delete() throws something else.
DeleteFail(id) ==
  /\ out' = Response("deleteAgent", id, 500, None)
  /\ UNCHANGED <<docs, searchable, cache, hits, misses, now, nextSweep, pc, req, meta, hist, served, univ>>

\* After the delete call: agentCache.del, then the response.
DeleteRespond(p) ==
  /\ pc[p] = "del_cache"
  /\ cache' = CacheDel(cache, CacheKey(req[p].agentId))
  /\ served' = Forget(req[p].agentId)
  /\ out' = Response("deleteAgent", req[p].agentId, 200, None)
  /\ hist' = [id \in Ids |->
                IF hist[id].by = p
                THEN [hist[id] EXCEPT !.by = 0, !.acked = TRUE]
                ELSE hist[id]]
  /\ pc' = [pc EXCEPT ![p] = "idle"]
  /\ req' = [req EXCEPT ![p] = NoRequest]
  /\ UNCHANGED <<docs, searchable, hits, misses, now, nextSweep, meta, univ>>

(***************************************************************************)
(* GET /search: searchQuerySchema.  A query is a record that has some of   *)
(* the parameters.  Joi converts the numeric strings; lat, lon, page and   *)
(* perPage are written here as the numbers they denote.  A comma-separated *)
(* string is written as the sequence of its pieces, each with its text as  *)
(* written and the word that text holds between its surrounding whitespace.*)
(***************************************************************************)
QueryKeys == {"q", "tags", "status", "version", "city", "country", "lat", "lon",
              "page", "perPage", "sort"}

SortModes == {"relevance", "name", "updatedAt", "distance"}

Piece(raw, word) == [raw |-> raw, word |-> word]

\* The string that split(',') cuts into these pieces is the empty string.
EmptyList(pieces) == pieces = <<Piece("", "")>>

\* Joi.string() does not accept the empty string.
EmptyParam(query) ==
  \/ \E f \in {"q", "status", "version", "city", "country", "sort"} \cap DOMAIN query :
       query[f] = ""
  \/ "tags" \in DOMAIN query /\ EmptyList(query.tags)

SearchError(query) ==
  IF ~(DOMAIN query \subseteq QueryKeys) THEN TRUE
  ELSE IF EmptyParam(query) THEN TRUE
  ELSE IF "status" \in DOMAIN query /\ query.status \notin Statuses THEN TRUE
  ELSE IF "lat" \in DOMAIN query /\ (query.lat < -90 \/ query.lat > 90) THEN TRUE
  ELSE IF "lon" \in DOMAIN query /\ (query.lon < -180 \/ query.lon > 180) THEN TRUE
  ELSE IF "page" \in DOMAIN query /\ query.page < 1 THEN TRUE
  ELSE IF "perPage" \in DOMAIN query /\ (query.perPage < 1 \/ query.perPage > 100) THEN TRUE
  ELSE "sort" \in DOMAIN query /\ query.sort \notin SortModes

SearchDefault(f) ==
  CASE f = "page" -> 1
    [] f = "perPage" -> 20
    [] f = "sort" -> "relevance"

SearchValue(query) ==
  [f \in DOMAIN query \cup {"page", "perPage", "sort"} |->
     IF f \in DOMAIN query THEN query[f] ELSE SearchDefault(f)]

\* if (x) for a string parameter, and for a number.
TruthyString(value, f) == f \in DOMAIN value /\ value[f] # ""
TruthyNumber(value, f) == f \in DOMAIN value /\ value[f] # 0

\* Variant: the pieces are taken as written.
TrimNothing(piece) == piece.raw

\* t.trim()
Trim(piece) == piece.word

\* tags.split(',').map(t => t.trim())
TagArray(pieces) == [i \in 1..Len(pieces) |-> Trim(pieces[i])]

\* Variant: a city that is supplied is matched as a text of its own.
MustWithPlace(value) ==
  (IF TruthyString(value, "q")
   THEN <<[kind |-> "multi_match", query |-> value.q,
           fields |-> <<"name^2", "description", "capabilities">>]>>
   ELSE <<>>)
  \o (IF TruthyString(value, "city")
      THEN <<[kind |-> "multi_match", query |-> value.city, fields |-> <<"location.city">>]>>
      ELSE <<>>)

\* if (q)
Must(value) ==
  IF TruthyString(value, "q")
  THEN <<[kind |-> "multi_match", query |-> value.q,
          fields |-> <<"name^2", "description", "capabilities">>]>>
  ELSE <<>>

TagsFilter(value) ==
  IF "tags" \in DOMAIN value /\ ~EmptyList(value.tags)
  THEN <<[kind |-> "terms", field |-> "tags", values |-> TagArray(value.tags)]>>
  ELSE <<>>

TermFilter(value, f) ==
  IF TruthyString(value, f)
  THEN <<[kind |-> "term", field |-> f, value |-> value[f]]>>
  ELSE <<>>

Filter(value) == TagsFilter(value) \o TermFilter(value, "status") \o TermFilter(value, "version")

GeoClause(lat, lon) ==
  [field |-> "_geo_distance", path |-> "location.coordinates",
   point |-> [lat |-> lat, lon |-> lon], order |-> "asc", unit |-> "km"]

\* if (lat && lon)
GeoSort(value) ==
  IF TruthyNumber(value, "lat") /\ TruthyNumber(value, "lon")
  THEN <<GeoClause(value.lat, value.lon)>>
  ELSE <<>>

UpdatedAtDesc == [field |-> "updatedAt", order |-> "desc"]
NameAsc == [field |-> "name.keyword", order |-> "asc"]

\* Variant: relevance never falls back to updatedAt.
ModeSortNoFallback(value) ==
  CASE value.sort = "name" -> <<NameAsc>>
    [] value.sort = "updatedAt" -> <<UpdatedAtDesc>>
    [] OTHER -> <<>>

\* switch (sort)
ModeSort(value) ==
  CASE value.sort = "name" -> <<NameAsc>>
    [] value.sort = "updatedAt" -> <<UpdatedAtDesc>>
    [] OTHER -> IF TruthyString(value, "q") THEN <<>> ELSE <<UpdatedAtDesc>>

SortClause(value) == GeoSort(value) \o ModeSort(value)

\* The body handed to client.search.
SearchRequest(value) ==
  [must |-> Must(value), filter |-> Filter(value), sort |-> SortClause(value),
   from |-> (value.page - 1) * value.perPage, size |-> value.perPage,
   aggs |-> <<"tags", "status">>]

(***************************************************************************)
(* Elasticsearch: what client.search answers for a request body, read from *)
(* the documents of the last refresh.                                      *)
(***************************************************************************)
Range(seq) == {seq[i] : i \in 1..Len(seq)}

\* multi_match: the text is found in one of the analysed fields.  The analysis
\* is abstracted: a field matches when it is the text.
MatchesMust(src, clause) ==
  \E f \in {"name", "description", "capabilities"} \cap DOMAIN src : src[f] = clause.query

\* terms: one of the values is among the document's; term: the value is the document's.
MatchesFilter(src, clause) ==
  IF clause.kind = "terms"
  THEN Range(clause.values) \cap Range(src[clause.field]) # {}
  ELSE src[clause.field] = clause.value

Matched(index, request) ==
  {d \in index :
     /\ \A i \in 1..Len(request.must) : MatchesMust(d._source, request.must[i])
     /\ \A i \in 1..Len(request.filter) : MatchesFilter(d._source, request.filter[i])}

Abs(n) == IF n < 0 THEN -n ELSE n

HasGeoPoint(src) == "location" \in DOMAIN src /\ "coordinates" \in DOMAIN src.location

\* The distance from the point to the stored [lon, lat]; the great-circle distance
\* is abstracted to the sum of the differences in degrees.
GeoDistance(src, point) ==
  Abs(src.location.coordinates[2] - point.lat) + Abs(src.location.coordinates[1] - point.lon)

\* A document without the sorted field comes last.
GeoFar == 1000

\* The order of the keyword values.
NameOrder == <<"n", "n1", "n2">>
NameRank(name) == CHOOSE i \in 1..Len(NameOrder) : NameOrder[i] = name

\* The number a clause orders a document by, ascending.
SortKey(src, clause) ==
  CASE clause.field = "_geo_distance" ->
         IF HasGeoPoint(src) THEN GeoDistance(src, clause.point) ELSE GeoFar
    [] clause.field = "name.keyword" -> NameRank(src.name)
    [] clause.field = "updatedAt" -> 0 - src.updatedAt

\* The sort value Elasticsearch reports for a hit.
SortValue(src, clause) ==
  CASE clause.field = "_geo_distance" ->
         IF HasGeoPoint(src) THEN GeoDistance(src, clause.point) ELSE "Infinity"
    [] clause.field = "name.keyword" -> src.name
    [] clause.field = "updatedAt" -> src.updatedAt

\* a comes before b under the clauses, the earlier clause deciding first.
Before(a, b, clauses) ==
  \E k \in 1..Len(clauses) :
    /\ \A j \in 1..(k - 1) : SortKey(a, clauses[j]) = SortKey(b, clauses[j])
    /\ SortKey(a, clauses[k]) < SortKey(b, clauses[k])

\* The orders Elasticsearch may return the matched documents in: sorted by the
\* clauses (by score when there are none), documents that tie in any order.
Orderings(S, clauses) ==
  {f \in [1..Cardinality(S) -> S] :
     /\ \A i, j \in 1..Cardinality(S) : i # j => f[i] # f[j]
     /\ \A i, j \in 1..Cardinality(S) :
          i < j => ~Before(f[j]._source, f[i]._source, clauses)}

\* _score: null under an explicit sort; else the relevance, which is abstracted
\* to 1 for a text match and 0 for a query that only filters.
Score(request) ==
  IF request.sort # <<>> THEN "null" ELSE IF request.must # <<>> THEN 1 ELSE 0

Hit(d, request) ==
  [_source |-> d._source, _score |-> Score(request),
   sort |-> [i \in 1..Len(request.sort) |-> SortValue(d._source, request.sort[i])]]

Min(a, b) == IF a < b THEN a ELSE b

\* Variant: the quotient is rounded down.
CeilDown(a, b) == a \div b

\* Math.ceil(a / b)
Ceil(a, b) == (a + b - 1) \div b

\* from / size
Slice(seq, from, size) ==
  [i \in 1..(IF Len(seq) > from THEN Min(Len(seq) - from, size) ELSE 0) |-> seq[from + i]]

\* terms aggregation: the count of matched documents per value of the field.
TermCounts(S, f) ==
  LET vals(d) == IF f = "tags" THEN Range(d._source.tags) ELSE {d._source[f]}
  IN [v \in UNION {vals(d) : d \in S} |-> Cardinality({d \in S : v \in vals(d)})]

\* result of client.search, the matched documents returned in `order`.
EsSearch(index, request, order) ==
  [hits |-> Slice([i \in 1..Len(order) |-> Hit(order[i], request)], request.from, request.size),
   total |-> Cardinality(Matched(index, request)),
   aggregations |-> [a \in Range(request.aggs) |-> TermCounts(Matched(index, request), a)]]

\* hit => ({...hit._source, score: hit._score, distance: hit.sort?.[0]}); a
\* property that is undefined is left out of the JSON.
SearchAgent(hit) ==
  [f \in DOMAIN hit._source \cup {"score"} \cup (IF hit.sort # <<>> THEN {"distance"} ELSE {}) |->
     IF f = "score" THEN hit._score
     ELSE IF f = "distance" THEN hit.sort[1]
     ELSE hit._source[f]]

Pagination(page, perPage, total) ==
  [page |-> page, perPage |-> perPage, total |-> total, totalPages |-> Ceil(total, perPage)]

SearchBody(value, result) ==
  [agents |-> [i \in 1..Len(result.hits) |-> SearchAgent(result.hits[i])],
   pagination |-> Pagination(value.page, value.perPage, result.total),
   aggregations |-> result.aggregations]

(***************************************************************************)
(* GET /agents                                                             *)
(***************************************************************************)
\* The body handed to client.search.
ListRequest(page, perPage) ==
  [must |-> <<>>, filter |-> <<>>, sort |-> <<UpdatedAtDesc>>,
   from |-> (page - 1) * perPage, size |-> perPage, aggs |-> <<>>]

\* hit => ({...hit._source, score: hit._score})
ListAgent(hit) ==
  [f \in DOMAIN hit._source \cup {"score"} |->
     IF f = "score" THEN hit._score ELSE hit._source[f]]

ListBody(page, perPage, result) ==
  [agents |-> [i \in 1..Len(result.hits) |-> ListAgent(result.hits[i])],
   pagination |-> Pagination(page, perPage, result.total)]

\* page and perPage are what parseInt(...) || default made of the parameters.
ListAgents(page, perPage) ==
  /\ \E order \in Orderings(Matched(searchable, ListRequest(page, perPage)),
                            ListRequest(page, perPage).sort) :
       out' = Response("listAgents", "", 200,
                       Some(ListBody(page, perPage,
                                     EsSearch(searchable, ListRequest(page, perPage), order))))
  /\ UNCHANGED <<docs, searchable, cache, hits, misses, now, nextSweep, pc, req, meta, hist, served, univ>>

(***************************************************************************)
(* GET /search: the handler.                                               *)
(***************************************************************************)
\* The query does not pass validation: 400.
SearchInvalid(query) ==
  /\ SearchError(query)
  /\ out' = Response("search", "", 400, None)
  /\ UNCHANGED <<docs, searchable, cache, hits, misses, now, nextSweep, pc, req, meta, hist, served, univ>>

\* validate() succeeds, the request body is built and client.search is sent.
SearchSend(p, query) ==
  /\ pc[p] = "idle"
  /\ ~SearchError(query)
  /\ LET value == SearchValue(query)
     IN req' = [req EXCEPT ![p] = [agentId |-> "", query |-> query, value |-> value,
                                   es |-> SearchRequest(value)]]
  /\ pc' = [pc EXCEPT ![p] = "search_wait"]
  /\ hist' = Disturb(hist, p)
  /\ out' = NoResponse
  /\ UNCHANGED <<docs, searchable, cache, hits, misses, now, nextSweep, meta, served, univ>>

\* client.search resolves: the response is shaped and sent.
SearchRespond(p) ==
  /\ pc[p] = "search_wait"
  /\ \E order \in Orderings(Matched(searchable, req[p].es), req[p].es.sort) :
       out' = Response("search", "", 200,
                       Some(SearchBody(req[p].value, EsSearch(searchable, req[p].es, order))))
  /\ pc' = [pc EXCEPT ![p] = "idle"]
  /\ req' = [req EXCEPT ![p] = NoRequest]
  /\ UNCHANGED <<docs, searchable, cache, hits, misses, now, nextSweep, meta, hist, served, univ>>

\* client.search throws: 500.
SearchFail(p) ==
  /\ pc[p] = "search_wait"
  /\ out' = Response("search", "", 500, None)
  /\ pc' = [pc EXCEPT ![p] = "idle"]
  /\ req' = [req EXCEPT ![p] = NoRequest]
  /\ UNCHANGED <<docs, searchable, cache, hits, misses, now, nextSweep, meta, hist, served, univ>>

(***************************************************************************)
(* GET /agentcard/:agentId                                                 *)
(***************************************************************************)
\* Variant: the lookup is not counted.
CountLookupNot(n) == n

\* cacheStats.hits++, cacheStats.misses++
CountLookup(n) == n + 1

\* agentCache.get finds the card: hits++, answer from the cache.
GetCardHit(id) ==
  /\ hits + misses < MaxLookups
  /\ CacheGet(cache, CacheKey(id), now) # None
  /\ hits' = CountLookup(hits)
  /\ out' = Response("getCard", id, 200,
                     Some(HitCard(Get(CacheGet(cache, CacheKey(id), now)))))
  /\ cache' = CacheAfterGet(cache, CacheKey(id), now)
  /\ UNCHANGED <<docs, searchable, misses, now, nextSweep, pc, req, meta, hist, served, univ>>

\* agentCache.get finds nothing: misses++, client.get is sent.
GetCardMiss(p, id) ==
  /\ pc[p] = "idle"
  /\ hits + misses < MaxLookups
  /\ CacheGet(cache, CacheKey(id), now) = None
  /\ misses' = CountLookup(misses)
  /\ cache' = CacheAfterGet(cache, CacheKey(id), now)
  /\ req' = [req EXCEPT ![p] = [agentId |-> id]]
  /\ pc' = [pc EXCEPT ![p] = "card_meta"]
  /\ hist' = Disturb(hist, p)
  /\ out' = NoResponse
  /\ UNCHANGED <<docs, searchable, hits, now, nextSweep, meta, served, univ>>

\* Variant: the fetch is sent whether or not the store has the record.
GetCardMetaAnyway(p) ==
  /\ pc[p] = "card_meta"
  /\ meta' = [meta EXCEPT ![p] = IF EsExists(docs, req[p].agentId)
                                  THEN EsGet(docs, req[p].agentId).url
                                  ELSE "http://u1"]
  /\ pc' = [pc EXCEPT ![p] = "card_fetch"]
  /\ out' = NoResponse
  /\ UNCHANGED <<docs, searchable, cache, hits, misses, now, nextSweep, req, hist, served, univ>>

\* client.get answers with the record: axios.get is sent to the agent.
GetCardMeta(p) ==
  /\ pc[p] = "card_meta"
  /\ EsExists(docs, req[p].agentId)
  /\ meta' = [meta EXCEPT ![p] = EsGet(docs, req[p].agentId).url]
  /\ pc' = [pc EXCEPT ![p] = "card_fetch"]
  /\ out' = NoResponse
  /\ UNCHANGED <<docs, searchable, cache, hits, misses, now, nextSweep, req, hist, served, univ>>

\* client.get answers 404.
GetCardNotFound(p) ==
  /\ pc[p] = "card_meta"
  /\ ~EsExists(docs, req[p].agentId)
  /\ out' = Response("getCard", req[p].agentId, 404, None)
  /\ pc' = [pc EXCEPT ![p] = "idle"]
  /\ req' = [req EXCEPT ![p] = NoRequest]
  /\ UNCHANGED <<docs, searchable, cache, hits, misses, now, nextSweep, meta, hist, served, univ>>

\* Variant: an error of the store ends the request without an answer.
GetCardStoreFailSilent(p) ==
  /\ pc[p] = "card_meta"
  /\ out' = NoResponse
  /\ pc' = [pc EXCEPT ![p] = "idle"]
  /\ req' = [req EXCEPT ![p] = NoRequest]
  /\ UNCHANGED <<docs, searchable, cache, hits, misses, now, nextSweep, meta, hist, served, univ>>

\* client.get throws something else.
GetCardStoreFail(p) ==
  /\ pc[p] = "card_meta"
  /\ out' = Response("getCard", req[p].agentId, 500, None)
  /\ pc' = [pc EXCEPT ![p] = "idle"]
  /\ req' = [req EXCEPT ![p] = NoRequest]
  /\ UNCHANGED <<docs, searchable, cache, hits, misses, now, nextSweep, meta, hist, served, univ>>

\* What agentCache.set stores for a fetched payload.
CacheAfterFetch(c, agentId, card, time) == CacheSet(c, CacheKey(agentId), card, time)

\* The agent answers: the card is stamped, cached and returned.
GetCardFetched(p) ==
  /\ pc[p] = "card_fetch"
  /\ \E data \in OriginPayloads(CardUrl(meta[p])) :
       LET id == req[p].agentId
           agentCard == StampCard(data, id, now)
       IN /\ cache' = CacheAfterFetch(cache, id, agentCard, now)
          /\ out' = Response("getCard", id, 200, Some(agentCard))
          /\ served' = [served EXCEPT ![id] =
                          [first |-> IF served[id].first = None
                                        \/ Get(served[id].first).fetchTimestamp + StdTTL < now
                                     THEN Some(agentCard) ELSE served[id].first,
                           last |-> Some(agentCard)]]
          /\ hist' = [hist EXCEPT ![id].quiet = FALSE]
  /\ pc' = [pc EXCEPT ![p] = "idle"]
  /\ req' = [req EXCEPT ![p] = NoRequest]
  /\ meta' = [meta EXCEPT ![p] = ""]
  /\ UNCHANGED <<docs, searchable, hits, misses, now, nextSweep, univ>>

\* Variant: a failed fetch is remembered as an empty card.
CacheAfterFetchErrorStored(c, agentId) ==
  CacheSet(c, CacheKey(agentId), StampCard([origin |-> "unavailable"], agentId, now), now)

\* What the cache holds after a fetch that failed.
CacheAfterFetchError(c, agentId) == c

\* Variant: a fetch that fails starts the request over from the metadata lookup.
GetCardRetry(p) ==
  /\ pc[p] = "card_fetch"
  /\ meta[p] \notin Up \/ OriginPayloads(CardUrl(meta[p])) = {}
  /\ pc' = [pc EXCEPT ![p] = "card_meta"]
  /\ meta' = [meta EXCEPT ![p] = ""]
  /\ out' = NoResponse
  /\ UNCHANGED <<docs, searchable, cache, hits, misses, now, nextSweep, req, hist, served, univ>>

\* The fetch fails (timeout, connection error, non-2xx): 503, nothing cached.
GetCardUnavailable(p) ==
  /\ pc[p] = "card_fetch"
  /\ meta[p] \notin Up \/ OriginPayloads(CardUrl(meta[p])) = {}
  /\ cache' = CacheAfterFetchError(cache, req[p].agentId)
  /\ out' = Response("getCard", req[p].agentId, 503,
                     Some([error |-> "Failed to fetch agent card",
                           agentId |-> req[p].agentId, url |-> meta[p]]))
  /\ pc' = [pc EXCEPT ![p] = "idle"]
  /\ req' = [req EXCEPT ![p] = NoRequest]
  /\ meta' = [meta EXCEPT ![p] = ""]
  /\ UNCHANGED <<docs, searchable, hits, misses, now, nextSweep, hist, served, univ>>

(***************************************************************************)
(* GET /cache/status, POST /cache/clear                                    *)
(***************************************************************************)
CacheStatusBody(c, h, m) ==
  [hits |-> h, misses |-> m, hitRate |-> HitRate(h, m), keys |-> CacheKeys(c)]

CacheStatus ==
  /\ out' = Response("cacheStatus", "", 200, Some(CacheStatusBody(cache, hits, misses)))
  /\ UNCHANGED <<docs, searchable, cache, hits, misses, now, nextSweep, pc, req, meta, hist, served, univ>>

\* Variant: only the hits are reset.
ResetStatsHitsOnly(h, m) == [hits |-> 0, misses |-> m]

\* cacheStats = { hits: 0, misses: 0, size: 0 }
ResetStats(h, m) == [hits |-> 0, misses |-> 0]

CacheClear ==
  /\ cache' = CacheFlushAll(cache)
  /\ hits' = ResetStats(hits, misses).hits
  /\ misses' = ResetStats(hits, misses).misses
  /\ served' = [id \in Ids |-> NoServed]
  /\ out' = Response("cacheClear", "", 200, None)
  /\ UNCHANGED <<docs, searchable, now, nextSweep, pc, req, meta, hist, univ>>

(***************************************************************************)
(* The environment: time, node-cache's timer, Elasticsearch's own refresh. *)
(***************************************************************************)
\* Time passes; the periodic check is not late by more than one step.
Tick ==
  /\ now < MaxTicks * TickLen
  /\ now < nextSweep
  /\ now' = now + TickLen
  /\ out' = NoResponse
  /\ UNCHANGED <<docs, searchable, cache, hits, misses, nextSweep, pc, req, meta, hist, served, univ>>

\* node-cache's checkperiod timer fires.
Sweep ==
  /\ now >= nextSweep
  /\ cache' = CacheSweep(cache, now)
  /\ nextSweep' = now + CheckPeriod
  /\ out' = NoResponse
  /\ UNCHANGED <<docs, searchable, hits, misses, now, pc, req, meta, hist, served, univ>>

\* Elasticsearch refreshes the index by itself (refresh_interval).
BackgroundRefresh ==
  /\ searchable # docs
  /\ searchable' = docs
  /\ out' = NoResponse
  /\ UNCHANGED <<docs, cache, hits, misses, now, nextSweep, pc, req, meta, hist, served, univ>>

Pages == {1, 2}
PerPages == {1, 20}

\* The steps of a registration that passes validation and reaches the index.
RegisterSteps ==
  \/ \E p \in Slots, body \in RegBodies : RegisterIndex(p, body)
  \/ \E p \in Slots : RegisterInvalidate(p)
  \/ \E p \in Slots : RegisterRefresh(p)
  \/ \E p \in Slots : RegisterRefreshFail(p)
  \/ \E p \in Slots : RegisterRespond(p)

\* The steps of a deletion that reaches the index.
DeleteSteps ==
  \/ \E p \in Slots, id \in univ.ids : DeleteIndex(p, id)
  \/ \E p \in Slots : DeleteRespond(p)

\* Requests that are turned down at once and leave the registry as it was.
RejectSteps ==
  \/ \E body \in RegBodies : RegisterInvalid(body)
  \/ \E body \in RegBodies : RegisterIndexFail(body)
  \/ \E id \in univ.ids : DeleteNotFound(id)
  \/ \E id \in univ.ids : DeleteFail(id)
  \/ \E id \in univ.ids : GetMetadataFail(id)

GetCardSteps ==
  \/ \E id \in univ.ids : GetCardHit(id)
  \/ \E p \in Slots, id \in univ.ids : GetCardMiss(p, id)
  \/ \E p \in Slots : GetCardMeta(p)
  \/ \E p \in Slots : GetCardNotFound(p)
  \/ \E p \in Slots : GetCardStoreFail(p)
  \/ \E p \in Slots : GetCardFetched(p)
  \/ \E p \in Slots : GetCardUnavailable(p)

ReadSteps ==
  \/ \E id \in univ.ids : GetMetadata(id)
  \/ \E page \in Pages, perPage \in PerPages : ListAgents(page, perPage)

SearchSteps ==
  \/ \E query \in univ.queries : SearchInvalid(query)
  \/ \E p \in Slots, query \in univ.queries : SearchSend(p, query)
  \/ \E p \in Slots : SearchRespond(p)
  \/ \E p \in Slots : SearchFail(p)

(***************************************************************************)
(* Spec: registrations, deletions and card requests for agent a1, under    *)
(* two urls, interleaving; agent a2 is registered and its card cached.     *)
(* The clock stands still.                                                 *)
(***************************************************************************)
Init ==
  InitWith({Body("a1", u) : u \in Urls} \cup {[agentId |-> "a1", name |-> "n"]},
           {"a1"}, {Body("a2", "http://u1")}, {"a2"})

Next ==
  \/ RegisterSteps
  \/ DeleteSteps
  \/ GetCardSteps
  \/ RejectSteps

Spec == Init /\ [][Next]_vars

(***************************************************************************)
(* SpecVis: writes and reads of the index for two agents, no card          *)
(* requests.                                                               *)
(***************************************************************************)
InitVis ==
  InitWith({Body(id, "http://u1") : id \in Ids} \cup {[agentId |-> "a1", name |-> "n"]},
           Ids, {}, {})

NextVis ==
  \/ RegisterSteps
  \/ DeleteSteps
  \/ ReadSteps
  \/ RejectSteps
  \/ BackgroundRefresh

SpecVis == InitVis /\ [][NextVis]_vars

(***************************************************************************)
(* SpecTTL: one registered agent, card requests and deletions, the clock   *)
(* running, the cache's timer, and the cache cleared at any time.          *)
(***************************************************************************)
InitTTL == InitWith({}, {"a1"}, {Body("a1", "http://u1")}, {})

NextTTL ==
  \/ DeleteSteps
  \/ GetCardSteps
  \/ CacheClear
  \/ Tick
  \/ Sweep

SpecTTL == InitTTL /\ [][NextTTL]_vars

(***************************************************************************)
(* SpecStats: one agent, card requests and the cache administration, the   *)
(* clock standing still.                                                   *)
(***************************************************************************)
InitStats == InitWith({Body("a1", "http://u1")}, {"a1"}, {Body("a2", "http://u1")}, {"a2"})

NextStats ==
  \/ RegisterSteps
  \/ DeleteSteps
  \/ GetCardSteps
  \/ CacheStatus
  \/ CacheClear

SpecStats == InitStats /\ [][NextStats]_vars

(***************************************************************************)
(* SpecReg: agent a1 is registered with every field and a2 with the        *)
(* required ones; registrations of a1 with differing fields, deletions and *)
(* reads of the metadata.                                                  *)
(***************************************************************************)
FullBody ==
  [agentId |-> "a1", name |-> "n1", description |-> "d", url |-> "http://u1",
   tags |-> <<"t1">>, status |-> "inactive", version |-> "2.0.0",
   capabilities |-> "c",
   location |-> [coordinates |-> [lat |-> 40, lon |-> -74], city |-> "NYC"]]

BareBody == [agentId |-> "a1", name |-> "n2", description |-> "d", url |-> "http://u1"]

InitReg ==
  InitWith({FullBody, BareBody,
            [agentId |-> "a1", name |-> "n1", description |-> "d", url |-> "http://u1",
             status |-> "retired"]},
           {"a1"}, {FullBody, Body("a2", "http://u1")}, {})

NextReg ==
  \/ RegisterSteps
  \/ DeleteSteps
  \/ RejectSteps
  \/ \E id \in univ.ids : GetMetadata(id)

SpecReg == InitReg /\ [][NextReg]_vars

(***************************************************************************)
(* SpecSearch: two agents are registered, one with tags, a status, a       *)
(* version and a location, one with other tags and the defaults; the       *)
(* registry serves one search query, drawn from three families, and        *)
(* listings.                                                               *)
(***************************************************************************)
OtherBody ==
  [agentId |-> "a2", name |-> "n2", description |-> "d", url |-> "http://u1",
   tags |-> <<"t2", "t3">>]

\* A parameter that is left out, or has one of the values.
Opt(S) == {<<>>} \cup {<<v>> : v \in S}

QueryOf(o) == [f \in {g \in DOMAIN o : o[g] # <<>>} |-> o[f][1]]

\* Queries that differ in the text, the point and the sort mode.
SortQueries ==
  {QueryOf([q |-> q, lat |-> lat, lon |-> lon, sort |-> sort, tags |-> tags]) :
     q \in Opt({"", "n1"}), lat \in Opt({0, 40}), lon \in Opt({0, -74}),
     sort \in Opt(SortModes), tags \in Opt({<<Piece("t1", "t1")>>})}

\* Queries that differ in the filters; "retired" is not a status.
FilterQueries ==
  {QueryOf([q |-> q, tags |-> tags, status |-> status, version |-> version, sort |-> sort]) :
     q \in Opt({"n1"}),
     tags \in Opt({<<Piece("t1", "t1")>>, <<Piece(" t3 ", "t3"), Piece("t4", "t4")>>,
                   <<Piece("", "")>>}),
     status \in Opt({"active", "retired"}), version \in Opt({"2.0.0"}),
     sort \in Opt({"name"})}

\* Queries that differ in the page; page 0 and perPage 101 are out of range.
PageQueries ==
  {QueryOf([page |-> page, perPage |-> perPage, q |-> q, sort |-> sort]) :
     page \in Opt({0, 1, 2, 3}), perPage \in Opt({1, 2, 101}),
     q \in Opt({"d"}), sort \in Opt({"name"})}

Queries == SortQueries \cup FilterQueries \cup PageQueries

InitSearch ==
  \E query \in Queries : InitUniv({}, {}, {FullBody, OtherBody}, {}, {query})

NextSearch ==
  \/ SearchSteps
  \/ \E page \in Pages, perPage \in PerPages : ListAgents(page, perPage)

SpecSearch == InitSearch /\ [][NextSearch]_vars

(***************************************************************************)
(* SpecPlace: as SpecSearch, the one query drawn from those that differ in *)
(* the city and the country; an empty city does not pass validation.       *)
(***************************************************************************)
PlaceQueries ==
  {QueryOf([q |-> q, city |-> city, country |-> country, tags |-> tags, sort |-> sort]) :
     q \in Opt({"n1"}), city \in Opt({"NYC", "LA", ""}), country \in Opt({"US", "FR"}),
     tags \in Opt({<<Piece("t1", "t1")>>}), sort \in Opt({"name"})}

InitPlace ==
  \E query \in PlaceQueries : InitUniv({}, {}, {FullBody, OtherBody}, {}, {query})

SpecPlace == InitPlace /\ [][NextSearch]_vars

(***************************************************************************)
(* SpecExample: the example agent is registered under its base url and is  *)
(* running, next to another agent; the registry serves card requests,      *)
(* deletions and registrations with the body the README documents.         *)
(***************************************************************************)
ReadmeBody ==
  [agentId |-> "a1", name |-> "n1", description |-> "d", url |-> ExampleUrl,
   tags |-> <<"t1", "t2">>, status |-> "active", version |-> "1.0.0",
   capabilities |-> "c", location |-> [lat |-> 40, lon |-> -74]]

\* The same registration without the location.
ExampleBody == Restrict(ReadmeBody, DOMAIN ReadmeBody \ {"location"})

InitExample ==
  InitWith({ReadmeBody, ExampleBody}, Ids, {ExampleBody, Body("a2", "http://u1")}, {})

NextExample ==
  \/ RegisterSteps
  \/ DeleteSteps
  \/ GetCardSteps
  \/ \E body \in RegBodies : RegisterInvalid(body)

SpecExample == InitExample /\ [][NextExample]_vars

(***************************************************************************)
(* SpecCard: as SpecTTL, for an agent registered at http://u2, whose       *)
(* payload has fields named like the ones the registry stamps.             *)
(***************************************************************************)
InitCard == InitWith({}, {"a1"}, {Body("a1", "http://u2")}, {})

SpecCard == InitCard /\ [][NextTTL]_vars

(***************************************************************************)
(* SpecLive: card requests and deletions for the example agent, which has  *)
(* no card at the address asked, and for an agent that may or may not      *)
(* answer.  A call to the store that is outstanding is answered or fails;  *)
(* a fetch that is outstanding is answered or fails, at the latest when    *)
(* its timeout of 5000 ms runs out.                                        *)
(***************************************************************************)
InitLive == InitWith({}, Ids, {ExampleBody, Body("a2", "http://u1")}, {})

NextLive ==
  \/ DeleteSteps
  \/ GetCardSteps

StoreAnswers(p) == GetCardMeta(p) \/ GetCardNotFound(p) \/ GetCardStoreFail(p)

FetchEnds(p) == GetCardFetched(p) \/ GetCardUnavailable(p)

Fairness == \A p \in Slots : WF_vars(StoreAnswers(p)) /\ WF_vars(FetchEnds(p))

SpecLive == InitLive /\ [][NextLive]_vars /\ Fairness

(***************************************************************************)
(* SpecFrame: every operation of the registry, on one agent that is        *)
(* registered and whose card is cached, with one search query that passes  *)
(* validation and one that does not.  The requests arrive one after the    *)
(* other: a request is taken up when no other is suspended.                *)
(***************************************************************************)
InitFrame ==
  InitUniv({Body("a1", "http://u1")}, {"a1"}, {Body("a1", "http://u1")}, {"a1"},
           {[q |-> "n"], [q |-> ""]})

\* No request is suspended at an await.
Alone == \A p \in Slots : pc[p] = "idle"

NextFrame ==
  \/ \E p \in Slots, body \in RegBodies : Alone /\ RegisterIndex(p, body)
  \/ \E p \in Slots : RegisterInvalidate(p)
  \/ \E p \in Slots : RegisterRefresh(p)
  \/ \E p \in Slots : RegisterRefreshFail(p)
  \/ \E p \in Slots : RegisterRespond(p)
  \/ \E p \in Slots, id \in univ.ids : Alone /\ DeleteIndex(p, id)
  \/ \E p \in Slots : DeleteRespond(p)
  \/ \E id \in univ.ids : GetCardHit(id)
  \/ \E p \in Slots, id \in univ.ids : Alone /\ GetCardMiss(p, id)
  \/ \E p \in Slots : GetCardMeta(p)
  \/ \E p \in Slots : GetCardNotFound(p)
  \/ \E p \in Slots : GetCardStoreFail(p)
  \/ \E p \in Slots : GetCardFetched(p)
  \/ \E p \in Slots : GetCardUnavailable(p)
  \/ \E query \in univ.queries : SearchInvalid(query)
  \/ \E p \in Slots, query \in univ.queries : Alone /\ SearchSend(p, query)
  \/ \E p \in Slots : SearchRespond(p)
  \/ \E p \in Slots : SearchFail(p)
  \/ ReadSteps
  \/ CacheStatus
  \/ CacheClear
  \/ Health
  \/ HealthFail

SpecFrame == InitFrame /\ [][NextFrame]_vars

(***************************************************************************)
(* Properties.                                                             *)
(***************************************************************************)
\* The last write to id's document was a registration / a deletion, and its
\* success has been reported to the caller.
RegisterDone(id) == hist[id].op = "reg" /\ hist[id].acked
DeleteDone(id) == hist[id].op = "del" /\ hist[id].acked

\* A registration or deletion of id is suspended between its index call and its response.
WriteInProgress(id) ==
  \E p \in Slots :
    /\ pc[p] \in {"reg_del", "reg_refresh", "reg_respond", "del_cache"}
    /\ req[p].agentId = id

\* This step is the cache lookup of a getCard(id) that answers from the cache.
HitStep(id) ==
  /\ hits' = hits + 1
  /\ out'.op = "getCard"
  /\ out'.agentId = id

\* This step is the cache lookup of a getCard(id) that misses.
MissStep(id) ==
  \E p \in Slots :
    /\ pc[p] = "idle"
    /\ pc'[p] = "card_meta"
    /\ req'[p].agentId = id

\* C1: once deleteAgent(id) has returned success and no register(id) followed,
\* the store has no record of id (getMetadata reports NotFound) and a getCard(id)
\* finds no card in the cache.
C1_DeletedAgentHasNoCard ==
  \A id \in Ids :
    DeleteDone(id) =>
      /\ ~EsExists(docs, id)
      /\ CacheGet(cache, CacheKey(id), now) = None

\* C2: when no register or delete of id is in progress, a cache entry for id
\* exists only if the store holds a record for id, and its card was fetched from
\* the url of that record.
C2_CachedCardFromStoredUrl ==
  \A id \in Ids :
    (~WriteInProgress(id) /\ CacheKey(id) \in DOMAIN cache) =>
      /\ EsExists(docs, id)
      /\ cache[CacheKey(id)].v.origin = EsGet(docs, id).url

\* register(id) ran from its write to its response with no other request in
\* flight, returned success, and since then no getCard(id) has stored a card and
\* no other write to id has begun.
Fresh(id) == RegisterDone(id) /\ hist[id].quiet

\* C3: the step of register(id) that follows its write removes the cache entry of
\* id, whether or not there was one, and leaves every other entry as it was; after
\* a register(id) that ran with no other request in flight, a getCard(id) misses
\* the cache and fetches from the url that was registered.
C3_RegisterInvalidates ==
  [][/\ \A p \in Slots :
          (pc[p] = "reg_del" /\ pc'[p] # "reg_del") =>
            /\ DOMAIN cache' = DOMAIN cache \ {CacheKey(req[p].agentId)}
            /\ \A k \in DOMAIN cache' : cache'[k] = cache[k]
     /\ \A id \in Ids :
          Fresh(id) =>
            /\ CacheGet(cache, CacheKey(id), now) = None
            /\ ~HitStep(id)
            /\ EsExists(docs, id)
            /\ EsGet(docs, id).url = Get(hist[id].body).url
     /\ \A p \in Slots :
          (pc[p] = "card_meta" /\ pc'[p] = "card_fetch" /\ Fresh(req[p].agentId)) =>
            meta'[p] = Get(hist[req[p].agentId].body).url
    ]_vars

\* C3 happens: a getCard of a freshly registered agent has missed the cache and is
\* fetching from the second url, the other agent's card still cached.
C3_Witness ==
  \E p \in Slots :
    /\ pc[p] = "card_fetch"
    /\ hist[req[p].agentId].quiet
    /\ meta[p] = "http://u2"
    /\ CacheKey("a2") \in DOMAIN cache

\* The card c is what a getCard answers from the cache: c with cached = true.
IsHitOf(body, c) ==
  /\ Len(body) = 1
  /\ DOMAIN body[1] = DOMAIN c
  /\ body[1].cached = TRUE
  /\ \A f \in DOMAIN c \ {"cached"} : body[1][f] = c[f]

\* This step is the end of a getCard(id) that fetched the card and answered 200.
FetchedStep(id) ==
  \E p \in Slots :
    /\ pc[p] = "card_fetch"
    /\ pc'[p] = "idle"
    /\ req[p].agentId = id
    /\ out'.status = 200

\* C4, as claimed: once a getCard(id) that missed has returned its card, and
\* until the TTL has elapsed or a register(id), deleteAgent(id) or cacheClear
\* has run, the cache answers getCard(id) with that first card.
C4_LaterCardsEqualFirst ==
  \A id \in Ids :
    (served[id].first # None /\ now <= Get(served[id].first).fetchTimestamp + StdTTL) =>
      CacheGet(cache, CacheKey(id), now) = served[id].first

\* C4, amended: a getCard(id) that fetches returns the card with cached = false
\* and stores it; until the TTL has elapsed since the last such store, or a
\* register(id), deleteAgent(id) or cacheClear has run, every getCard(id) is
\* answered from the cache, with cached = true and otherwise the card stored last.
C4_LaterCardsEqualLastStored ==
  [][\A id \in Ids :
       /\ FetchedStep(id) =>
            /\ Len(out'.body) = 1
            /\ out'.body[1].cached = FALSE
            /\ out'.body[1].agentId = id
            /\ CacheGet(cache', CacheKey(id), now') = out'.body
            /\ served'[id].last = out'.body
       /\ (served[id].last # None /\ now <= Get(served[id].last).fetchTimestamp + StdTTL) =>
            /\ ~MissStep(id)
            /\ HitStep(id) => IsHitOf(out'.body, Get(served[id].last))
    ]_vars

\* C4 happens: a getCard was answered from the cache some time after the fetch.
C4_Witness ==
  /\ out.op = "getCard"
  /\ out.status = 200
  /\ out.body[1].cached = TRUE
  /\ out.body[1].fetchTimestamp < now
  /\ served[out.agentId].last # None

\* C5: an entry lives StdTTL seconds from its insertion, whatever hits it served:
\* once that time has passed since the last store for id, a getCard(id) is not
\* answered from the cache; it counts one miss and goes on to the store and the
\* origin.  The periodic check leaves no expired entry behind.
C5_TtlFromInsertion ==
  [][/\ \A id \in Ids :
          (served[id].last # None /\ Get(served[id].last).fetchTimestamp + StdTTL < now) =>
            /\ ~HitStep(id)
            /\ CacheGet(cache, CacheKey(id), now) = None
            /\ MissStep(id) => (misses' = misses + 1 /\ hits' = hits)
     /\ nextSweep' # nextSweep =>
          \A k \in DOMAIN cache' : cache'[k].t >= now'
     /\ \A k \in DOMAIN cache' :
          (k \notin DOMAIN cache \/ cache'[k] # cache[k]) => cache'[k].t = now' + StdTTL
    ]_vars

\* C5 happens: after a store and a hit, the TTL has passed and a getCard missed.
C5_Witness ==
  \E p \in Slots :
    /\ pc[p] = "card_meta"
    /\ hits >= 1
    /\ misses >= 2
    /\ served[req[p].agentId].last # None
    /\ Get(served[req[p].agentId].last).fetchTimestamp + StdTTL < now

\* C6: a getCard whose fetch fails answers 503 with the agent id and the url, and
\* leaves the cache as it was; an entry enters the cache only in a step that
\* answers 200 with that very card.
C6_FetchFailureNotCached ==
  [][/\ \A p \in Slots :
          (pc[p] = "card_fetch" /\ pc'[p] = "idle" /\ out'.status # 200) =>
            /\ out'.op = "getCard"
            /\ out'.status = 503
            /\ out'.agentId = req[p].agentId
            /\ Len(out'.body) = 1
            /\ out'.body[1].agentId = req[p].agentId
            /\ out'.body[1].url = meta[p]
            /\ cache' = cache
     /\ \A k \in DOMAIN cache' :
          (k \notin DOMAIN cache \/ cache'[k] # cache[k]) =>
            /\ out'.status = 200
            /\ out'.body = <<cache'[k].v>>
    ]_vars

\* C6 happens: a fetch has just failed and the agent has no cache entry.
C6_Witness ==
  /\ out.op = "getCard"
  /\ out.status = 503
  /\ CacheKey(out.agentId) \notin DOMAIN cache
  /\ EsExists(docs, out.agentId)

ZeroStatus == [hits |-> 0, misses |-> 0, hitRate |-> <<0, 1>>, keys |-> 0]

\* C7: cacheClear empties the cache and zeroes both counters in one step; the
\* counters never go down in any other step; a cacheStatus that is the next step
\* after a cacheClear reports hits 0, misses 0, no entries and hit rate 0.
C7_ClearAtomic ==
  [][/\ out'.op = "cacheClear" =>
          /\ DOMAIN cache' = {}
          /\ hits' = 0
          /\ misses' = 0
          /\ CacheStatusBody(cache', hits', misses') = ZeroStatus
     /\ (hits' < hits \/ misses' < misses) => out'.op = "cacheClear"
     /\ (out.op = "cacheClear" /\ out'.op = "cacheStatus") =>
          out'.body = <<ZeroStatus>>
    ]_vars

\* C7 happens: the cache was cleared while a getCard that had counted its miss
\* was still in flight, and cacheStatus then reported zeros.
C7_Witness ==
  /\ out.op = "cacheStatus"
  /\ out.body = <<ZeroStatus>>
  /\ \E p \in Slots : pc[p] = "card_fetch"

\* What register(r) is to have stored: r's fields, a default for each omitted one.
FieldOr(r, f, default) == IF f \in DOMAIN r THEN r[f] ELSE default

\* The record the store holds for id has r's agentId, name, status and tags, a
\* default where r omits the field, and no field that r and the registry did not set.
HoldsRegistration(index, id, r) ==
  /\ EsExists(index, id)
  /\ LET src == EsGet(index, id)
     IN /\ DOMAIN src = DOMAIN r \cup {"tags", "status", "version", "capabilities", "updatedAt"}
        /\ src.agentId = r.agentId
        /\ src.agentId = id
        /\ src.name = r.name
        /\ src.status = FieldOr(r, "status", "active")
        /\ src.tags = FieldOr(r, "tags", <<>>)
        /\ src.version = FieldOr(r, "version", "1.0.0")
        /\ src.capabilities = FieldOr(r, "capabilities", "")

\* C8: after register(r) has returned success (and no later write to that id),
\* the store holds for r.agentId exactly r's fields, with defaults for the omitted
\* ones, and getMetadata, unless the store fails it, returns that record; no two
\* records share an agentId.
C8_RegisterReplaces ==
  /\ \A id \in Ids :
       RegisterDone(id) =>
         /\ HoldsRegistration(docs, id, Get(hist[id].body))
         /\ (out.op = "getMetadata" /\ out.agentId = id /\ out.status # 500) =>
              /\ out.status = 200
              /\ out.body = <<EsGet(docs, id)>>
  /\ \A d1, d2 \in docs : d1._source.agentId = d2._source.agentId => d1 = d2
  /\ \A d \in docs : d._id = d._source.agentId

\* C8 happens: the bare registration of a1 has returned (the store held the full
\* one from the start), and getMetadata has just returned the record with the
\* defaults and without the location, the other agent's record still there.
C8_Witness ==
  /\ RegisterDone("a1")
  /\ hist["a1"].body = <<BareBody>>
  /\ out.op = "getMetadata"
  /\ out.agentId = "a1"
  /\ out.status = 200
  /\ out.body[1].name = "n2"
  /\ out.body[1].status = "active"
  /\ out.body[1].tags = <<>>
  /\ "location" \notin DOMAIN out.body[1]
  /\ EsExists(docs, "a2")

\* The agents a listing or search response carries, and whether the page of a
\* listing holds every agent there is.
ListedIds(body) == {body.agents[i].agentId : i \in 1..Len(body.agents)}
WholeList(body) == body.pagination.page = 1 /\ body.pagination.perPage >= body.pagination.total

\* C9: when register has returned success for id (and no later write to id has
\* reached the index), what a search reads holds the record as written: listAgents
\* returns the agent, and getMetadata, unless the store fails it, returns the record.
C9_RegisterVisible ==
  \A id \in Ids :
    RegisterDone(id) =>
      /\ EsExists(docs, id)
      /\ EsExists(searchable, id)
      /\ EsGet(searchable, id) = EsGet(docs, id)
      /\ EsGet(docs, id).url = Get(hist[id].body).url
      /\ (out.op = "listAgents" /\ WholeList(out.body[1])) => id \in ListedIds(out.body[1])
      /\ (out.op = "getMetadata" /\ out.agentId = id /\ out.status # 500) =>
           /\ out.status = 200
           /\ out.body = <<EsGet(docs, id)>>

\* C9 happens: listAgents has just returned an agent whose registration returned.
C9_Witness ==
  /\ out.op = "listAgents"
  /\ \E id \in Ids : RegisterDone(id) /\ id \in ListedIds(out.body[1])
  /\ \E id \in Ids : ~EsExists(docs, id)

\* C10: when deleteAgent has returned success for id (and no later write to id
\* has reached the index), what a search reads no longer holds the agent, and
\* listAgents does not return it.
C10_DeleteVisible ==
  \A id \in Ids :
    DeleteDone(id) =>
      /\ ~EsExists(searchable, id)
      /\ out.op = "listAgents" => id \notin ListedIds(out.body[1])

\* This step of slot p sends the search to the store / answers the search with 200.
SendStep(p) == pc[p] = "idle" /\ pc'[p] = "search_wait"
RespondStep(p) == pc[p] = "search_wait" /\ pc'[p] = "idle" /\ out'.status = 200

\* The query supplies both lat and lon / a text that is not empty; its sort mode.
BothSupplied(query) == {"lat", "lon"} \subseteq DOMAIN query
HasText(query) == "q" \in DOMAIN query /\ query.q # ""
SortMode(query) == IF "sort" \in DOMAIN query THEN query.sort ELSE "relevance"

\* The sort starts with the ascending distance in km from the query's point.
GeoFirst(sort, query) ==
  /\ sort # <<>>
  /\ sort[1].field = "_geo_distance"
  /\ sort[1].order = "asc"
  /\ sort[1].unit = "km"
  /\ sort[1].point = [lat |-> query.lat, lon |-> query.lon]

\* C11: for every valid search request the compiled sort starts with the ascending
\* geo-distance clause from the supplied point exactly when both lat and lon are
\* supplied, lat = 0 and lon = 0 included; a request that supplies only one of
\* them compiles to the sort of the request that supplies neither.
C11_GeoSortIffBothSupplied ==
  [][\A p \in Slots :
       SendStep(p) =>
         LET query == req'[p].query
             sort == req'[p].es.sort
         IN /\ BothSupplied(query) => GeoFirst(sort, query)
            /\ ~BothSupplied(query) =>
                 /\ (sort = <<>> \/ sort[1].field # "_geo_distance")
                 /\ sort = SortClause(SearchValue(Restrict(query, DOMAIN query \ {"lat", "lon"})))
    ]_vars

\* C12: a hit of a search response carries a distance field exactly when the
\* request supplied both lat and lon; under sort = name, sort = updatedAt or
\* relevance without text no hit carries one.
C12_DistanceOnlyWhenGeoSorted ==
  [][\A p \in Slots :
       RespondStep(p) =>
         \A i \in 1..Len(out'.body[1].agents) :
           ("distance" \in DOMAIN out'.body[1].agents[i]) <=> BothSupplied(req[p].query)
    ]_vars

\* C13: when the compiled sort has no geo-distance clause, it is: for name,
\* ascending name.keyword; for updatedAt, descending updatedAt; for relevance
\* (and distance, which the handler treats alike) nothing when the query has a
\* text, descending updatedAt when it has none.  So it is empty only with a text.
C13_SortByMode ==
  [][\A p \in Slots :
       SendStep(p) =>
         LET query == req'[p].query
             sort == req'[p].es.sort
         IN (sort = <<>> \/ sort[1].field # "_geo_distance") =>
              /\ SortMode(query) = "name" =>
                   sort = <<[field |-> "name.keyword", order |-> "asc"]>>
              /\ SortMode(query) = "updatedAt" =>
                   sort = <<[field |-> "updatedAt", order |-> "desc"]>>
              /\ (SortMode(query) \in {"relevance", "distance"} /\ HasText(query)) =>
                   sort = <<>>
              /\ (SortMode(query) \in {"relevance", "distance"} /\ ~HasText(query)) =>
                   sort = <<[field |-> "updatedAt", order |-> "desc"]>>
              /\ sort = <<>> => HasText(query)
    ]_vars

\* C13 happens: a search with a text and the default mode was sent with no sort
\* clause, and one without a text and without a point with descending updatedAt.
C13_Witness ==
  \E p \in Slots :
    /\ pc[p] = "search_wait"
    /\ HasText(req[p].query)
    /\ "sort" \notin DOMAIN req[p].query
    /\ ~BothSupplied(req[p].query)
    /\ req[p].es.sort = <<>>

\* C14: a search whose text is the empty string is handled as the same search
\* without a text: it is not turned down, and the query sent to the store is
\* that of the search without a text, with no must clause.
C14_EmptyTextAsAbsent ==
  [][\A query \in univ.queries :
       ("q" \in DOMAIN query /\ query.q = ""
          /\ ~SearchError(Restrict(query, DOMAIN query \ {"q"}))) =>
         /\ ~(out'.op = "search" /\ out'.status = 400)
         /\ \A p \in Slots :
              SendStep(p) =>
                /\ req'[p].es.must = <<>>
                /\ req'[p].es =
                     SearchRequest(SearchValue(Restrict(query, DOMAIN query \ {"q"})))
    ]_vars

\* The words of a comma-separated list, each without its surrounding whitespace.
Words(pieces) == {pieces[i].word : i \in 1..Len(pieces)}

\* The clauses of a filter list that are on field f.
ClausesOn(filter, f) == {i \in 1..Len(filter) : filter[i].field = f}

\* C15: with tags supplied the query has one filter clause on tags, which matches
\* an agent exactly when its tags intersect the supplied words (trimmed); status
\* and version each add one exact-match filter clause when supplied and none
\* when absent; the must clauses hold the text match only; and the agents a
\* search returns pass every filter supplied.
C15_Filters ==
  [][\A p \in Slots :
       /\ SendStep(p) =>
            LET query == req'[p].query
                es == req'[p].es
            IN /\ "tags" \in DOMAIN query =>
                    /\ Cardinality(ClausesOn(es.filter, "tags")) = 1
                    /\ \A i \in ClausesOn(es.filter, "tags") :
                         /\ es.filter[i].kind = "terms"
                         /\ Range(es.filter[i].values) = Words(query.tags)
                         /\ \A d \in searchable :
                              MatchesFilter(d._source, es.filter[i]) <=>
                                (Range(d._source.tags) \cap Words(query.tags) # {})
               /\ "tags" \notin DOMAIN query => ClausesOn(es.filter, "tags") = {}
               /\ \A f \in {"status", "version"} :
                    IF f \in DOMAIN query
                    THEN /\ Cardinality(ClausesOn(es.filter, f)) = 1
                         /\ \A i \in ClausesOn(es.filter, f) :
                              es.filter[i].kind = "term" /\ es.filter[i].value = query[f]
                    ELSE ClausesOn(es.filter, f) = {}
               /\ Len(es.filter) = Cardinality({"tags", "status", "version"} \cap DOMAIN query)
               /\ \A i \in 1..Len(es.must) : es.must[i].kind = "multi_match"
               /\ Len(es.must) <= 1
       /\ RespondStep(p) =>
            LET query == req[p].query
            IN \A i \in 1..Len(out'.body[1].agents) :
                 LET a == out'.body[1].agents[i]
                 IN /\ "tags" \in DOMAIN query => Range(a.tags) \cap Words(query.tags) # {}
                    /\ "status" \in DOMAIN query => a.status = query.status
                    /\ "version" \in DOMAIN query => a.version = query.version
    ]_vars

\* C15 happens: a search by tags written with whitespace around one of them has
\* returned the one agent that has that tag.
C15_Witness ==
  /\ out.op = "search"
  /\ out.status = 200
  /\ \E query \in univ.queries :
       /\ "tags" \in DOMAIN query
       /\ \E i \in 1..Len(query.tags) : query.tags[i].raw # query.tags[i].word
  /\ {out.body[1].agents[i].agentId : i \in 1..Len(out.body[1].agents)} = {"a2"}

\* The page and the page size a query asks for.
PageOf(query) == IF "page" \in DOMAIN query THEN query.page ELSE 1
PerPageOf(query) == IF "perPage" \in DOMAIN query THEN query.perPage ELSE 20

\* n = ceil(total / perPage)
IsCeil(n, total, perPage) == n * perPage >= total /\ (n - 1) * perPage < total

\* The number of hits a page carries.
PageLen(total, page, perPage) ==
  IF total > (page - 1) * perPage
  THEN (IF total - (page - 1) * perPage < perPage THEN total - (page - 1) * perPage ELSE perPage)
  ELSE 0

C17_UnknownIdNotFound ==
  [][/\ \A p \in Slots :
          (pc[p] = "card_meta" /\ ~EsExists(docs, req[p].agentId) /\ pc'[p] # "card_meta") =>
            /\ pc'[p] = "idle"
            /\ out'.op = "getCard"
            /\ out'.agentId = req[p].agentId
            /\ out'.status \in {404, 500}
            /\ meta[p] = ""
            /\ meta'[p] = ""
            /\ cache' = cache
     /\ (out'.op = "getCard" /\ out'.status = 404) =>
          /\ ~EsExists(docs, out'.agentId)
          /\ cache' = cache
    ]_vars

\* C17 happens: a getCard of an id the store does not have has answered 404, and
\* the cache has no entry for it.
C17_Witness ==
  /\ out.op = "getCard"
  /\ out.status = 404
  /\ ~EsExists(docs, out.agentId)
  /\ CacheKey(out.agentId) \notin DOMAIN cache
  /\ \A p \in Slots : pc[p] # "card_fetch"

\* The body has the shape the README documents: the required fields, a valid
\* url and status, and the location given as {lat, lon} within the ranges.
DocumentedShape(body) ==
  /\ DOMAIN body \subseteq RegKeys
  /\ {"agentId", "name", "description", "url"} \subseteq DOMAIN body
  /\ IsUri(body.url)
  /\ "status" \in DOMAIN body => body.status \in Statuses
  /\ "location" \in DOMAIN body =>
       /\ DOMAIN body.location = {"lat", "lon"}
       /\ body.location.lat >= -90 /\ body.location.lat <= 90
       /\ body.location.lon >= -180 /\ body.location.lon <= 180

\* C18: a registration of the documented shape, its location given as {lat, lon},
\* is accepted: register answers 400 only for a body that is not of that shape.
C18_DocumentedBodyAccepted ==
  [][(out'.op = "register" /\ out'.status = 400) =>
       \E body \in univ.bodies : ~DocumentedShape(body)
    ]_vars

\* C19: a getCard whose fetch goes to the example agent, which is running and
\* registered under its base url, ends with the card, cached = false, and not
\* with CardUnavailable.
C19_ExampleAgentCardFetched ==
  [][\A p \in Slots :
       (pc[p] = "card_fetch" /\ meta[p] = ExampleUrl /\ pc'[p] = "idle") =>
         /\ out'.status = 200
         /\ out'.body[1].cached = FALSE
    ]_vars

\* This step answers a getCard from the cache.
AnswerFromCache ==
  /\ out'.op = "getCard"
  /\ out'.status = 200
  /\ out'.body[1].cached = TRUE

\* C20: a getCard counts at its cache lookup, once: a lookup answered from the
\* cache adds one to hits and leaves misses, a lookup that misses adds one to
\* misses and leaves hits, however the request ends; no other step but
\* cacheClear, which zeroes both, changes either counter.  So hits + misses is
\* the number of lookups since the last cacheClear.
C20_OneCountPerLookup ==
  [][/\ AnswerFromCache => (hits' = hits + 1 /\ misses' = misses)
     /\ (\E id \in Ids : MissStep(id)) => (misses' = misses + 1 /\ hits' = hits)
     /\ (~AnswerFromCache /\ ~(\E id \in Ids : MissStep(id)) /\ out'.op # "cacheClear") =>
          (hits' = hits /\ misses' = misses)
     /\ out'.op = "cacheClear" => (hits' = 0 /\ misses' = 0)
     /\ \A p \in Slots :
          (pc[p] \in {"card_meta", "card_fetch"} /\ pc'[p] = "idle") =>
            (hits' = hits /\ misses' = misses)
    ]_vars

\* C20 happens: after a hit and a miss that fetched, a getCard that missed has
\* ended in not-found or CardUnavailable, and both counters stand.
C20_Witness ==
  /\ out.op = "getCard"
  /\ out.status \in {404, 503}
  /\ hits >= 1
  /\ misses >= 2

\* The cache holds an entry for id whose time has passed: the periodic check
\* has not removed it yet.
ExpiredUnswept(id) ==
  /\ CacheKey(id) \in DOMAIN cache
  /\ cache[CacheKey(id)].t < now

\* C21: while the cache holds an entry for id that is expired and not yet swept,
\* no step answers a getCard(id) from the cache; the lookup of a getCard(id)
\* counts one miss, drops the entry and sends the request on to the store, from
\* where it goes to the origin.
C21_ExpiredUnsweptIsMiss ==
  [][\A id \in Ids :
       ExpiredUnswept(id) =>
         /\ ~HitStep(id)
         /\ ~(out'.op = "getCard" /\ out'.agentId = id /\ out'.status = 200
              /\ out'.body[1].cached = TRUE)
         /\ MissStep(id) =>
              /\ misses' = misses + 1
              /\ hits' = hits
              /\ CacheKey(id) \notin DOMAIN cache'
    ]_vars

\* C21 happens: the only lookup since the cache was cleared found the card that
\* was stored after the clear expired during the last tick, before the periodic
\* check that is due, and the request waits for the store.
C21_Witness ==
  \E p \in Slots :
    LET id == req[p].agentId
    IN /\ pc[p] = "card_meta"
       /\ id \in Ids
       /\ served[id].last # None
       /\ Get(served[id].last).fetchTimestamp + StdTTL < now
       /\ now - TickLen <= Get(served[id].last).fetchTimestamp + StdTTL
       /\ nextSweep <= now
       /\ hits = 0
       /\ misses = 1
       /\ CacheKey(id) \notin DOMAIN cache

\* C22: requests for the same id that missed each fetch and each put.  A put
\* replaces the entry of its id by the whole card of its own fetch, which is the
\* card the request returns, with a ttl counted from the put; an entry appears
\* or changes in no other way, and every key of the cache is the key of one id,
\* so the cache holds for id the card of the last put and nothing of an earlier one.
C22_ConcurrentPutsWholeCard ==
  [][/\ \A p \in Slots :
          (pc[p] = "card_fetch" /\ pc'[p] = "idle" /\ out'.status = 200) =>
            \E data \in OriginPayloads(CardUrl(meta[p])) :
              /\ cache'[CacheKey(req[p].agentId)] =
                   [v |-> StampCard(data, req[p].agentId, now), t |-> now + StdTTL]
              /\ out'.body = <<StampCard(data, req[p].agentId, now)>>
              /\ \A k \in DOMAIN cache' \ {CacheKey(req[p].agentId)} :
                   k \in DOMAIN cache /\ cache'[k] = cache[k]
     /\ \A k \in DOMAIN cache' :
          /\ \E id \in Ids : k = CacheKey(id)
          /\ (k \notin DOMAIN cache \/ cache'[k] # cache[k]) => FetchedStep(k[2])
    ]_vars

\* C22 happens: two requests for the same id had missed; the second has just put
\* and returned its card, which differs from the card the first put, and the
\* cache holds the second card.
C22_Witness ==
  /\ out.op = "getCard"
  /\ out.status = 200
  /\ out.body[1].cached = FALSE
  /\ served[out.agentId].first # None
  /\ served[out.agentId].first # served[out.agentId].last
  /\ served[out.agentId].last = out.body
  /\ CacheKey(out.agentId) \in DOMAIN cache
  /\ cache[CacheKey(out.agentId)].v = out.body[1]

\* C23: a getCard request asks the store only after its cache lookup missed, and
\* asks the origin only once, after the store answered with the record, at the
\* url of that record; whatever the origin's answer, the request then ends with
\* 200 or 503 and asks nobody again.  A lookup answered from the cache leaves
\* every request where it is: neither the store nor the origin is asked.
C23_OneOriginRequest ==
  [][/\ \A p \in Slots :
          /\ (pc'[p] = "card_meta" /\ pc[p] # "card_meta") =>
               /\ pc[p] = "idle"
               /\ CacheGet(cache, CacheKey(req'[p].agentId), now) = None
          /\ (pc'[p] = "card_fetch" /\ pc[p] # "card_fetch") =>
               /\ pc[p] = "card_meta"
               /\ EsExists(docs, req[p].agentId)
               /\ meta'[p] = EsGet(docs, req[p].agentId).url
               /\ req'[p] = req[p]
          /\ (pc[p] = "card_fetch" /\ pc'[p] = "card_fetch") =>
               (meta'[p] = meta[p] /\ req'[p] = req[p])
          /\ (pc[p] = "card_fetch" /\ pc'[p] # "card_fetch") =>
               /\ pc'[p] = "idle"
               /\ out'.op = "getCard"
               /\ out'.agentId = req[p].agentId
               /\ out'.status \in {200, 503}
     /\ \A id \in Ids :
          HitStep(id) =>
            /\ CacheGet(cache, CacheKey(id), now) # None
            /\ UNCHANGED <<pc, req, meta, docs>>
    ]_vars

\* C23 happens: after a getCard that was answered from the cache, a getCard that
\* missed and found the record has had its one fetch fail and has ended with
\* 503; no request is suspended.
C23_Witness ==
  /\ out.op = "getCard"
  /\ out.status = 503
  /\ hits >= 1
  /\ misses >= 2
  /\ \A p \in Slots : pc[p] = "idle" /\ meta[p] = ""

\* The operations that only read.
ReadOnlyOps == {"getMetadata", "listAgents", "search", "cacheStatus", "health"}

\* C24: the documents of the index change only in the step of a register or a
\* deleteAgent that carries out its index or delete call; no step of getMetadata,
\* listAgents, search, getCard, cacheStatus, cacheClear or health changes the
\* index, and no step of getMetadata, listAgents, search, cacheStatus or health
\* changes the cache or the hits and misses counters.
C24_ReadsChangeNothing ==
  [][/\ docs' # docs =>
          \E p \in Slots : pc[p] = "idle" /\ pc'[p] \in {"reg_del", "del_cache"}
     /\ (\/ out'.op \in ReadOnlyOps \cup {"getCard", "cacheClear"}
         \/ \E p \in Slots :
              /\ pc'[p] # pc[p]
              /\ {pc[p], pc'[p]} \cap {"card_meta", "card_fetch", "search_wait"} # {}) =>
          (docs' = docs /\ searchable' = searchable)
     /\ (\/ out'.op \in ReadOnlyOps
         \/ \E p \in Slots : pc'[p] # pc[p] /\ "search_wait" \in {pc[p], pc'[p]}) =>
          (cache' = cache /\ hits' = hits /\ misses' = misses)
    ]_vars

\* C24 happens: with a record stored, a card cached and both counters above
\* zero, a search has just been answered.
C24_Witness ==
  /\ out.op = "search"
  /\ out.status = 200
  /\ docs # {}
  /\ DOMAIN cache # {}
  /\ hits >= 1
  /\ misses >= 1

HasWritten(p) == pc[p] \in {"reg_del", "reg_refresh", "reg_respond"}

\* C26: a register that is answered 400 or 500 has changed neither the stored
\* record nor the cache entry of its id: the step that sends the answer changes
\* neither, and the request it ends is not one that has written.
C26_FailedRegisterChangedNothing ==
  [][(out'.op = "register" /\ out'.status \in {400, 500}) =>
       /\ docs' = docs
       /\ cache' = cache
       /\ \A p \in Slots : (HasWritten(p) /\ pc'[p] = "idle") => hist[req[p].agentId].by # p
    ]_vars

\* The query without its city and country.
Placeless(query) == Restrict(query, DOMAIN query \ {"city", "country"})

\* C27: a search request that passes validation compiles to the request body
\* (query, filters, sort, from, size, aggregations) that the same request
\* without its city and country compiles to, and its response is one that
\* request has over the same index; so two valid requests that differ in the
\* city and the country only compile to the same body and are answered alike.
C27_PlaceIgnored ==
  [][\A p \in Slots :
       /\ SendStep(p) =>
            /\ ~SearchError(Placeless(req'[p].query))
            /\ req'[p].es = SearchRequest(SearchValue(Placeless(req'[p].query)))
       /\ RespondStep(p) =>
            LET value == SearchValue(Placeless(req[p].query))
                es == SearchRequest(value)
            IN \E order \in Orderings(Matched(searchable, es), es.sort) :
                 out'.body = <<SearchBody(value, EsSearch(searchable, es, order))>>
    ]_vars

\* C27 happens: a search that names a city has been answered with an agent of
\* another city.
C27_Witness ==
  /\ out.op = "search"
  /\ out.status = 200
  /\ \E query \in univ.queries :
       /\ "city" \in DOMAIN query
       /\ "country" \in DOMAIN query
       /\ \E i \in 1..Len(out.body[1].agents) :
            /\ "location" \in DOMAIN out.body[1].agents[i]
            /\ out.body[1].agents[i].location.city # query.city

\* C28: a getCard request that is answered from the cache sends 200 in its one
\* step; one that misses sends nothing while it goes from the cache to the store
\* and from the store to the origin, and sends one response in the step that
\* ends it: 200, 404, 503 or 500; and every request that waits for the store or
\* for the origin is ended.
C28_GetCardResponds ==
  /\ [][/\ \A p \in Slots :
             (pc[p] \in {"card_meta", "card_fetch"} /\ pc'[p] # pc[p]) =>
               IF pc'[p] = "idle"
               THEN /\ out'.op = "getCard"
                    /\ out'.agentId = req[p].agentId
                    /\ out'.status \in {200, 404, 503, 500}
               ELSE /\ pc[p] = "card_meta"
                    /\ pc'[p] = "card_fetch"
                    /\ out' = NoResponse
        /\ \A id \in Ids :
             /\ MissStep(id) => out' = NoResponse
             /\ HitStep(id) => (out'.status = 200 /\ pc' = pc)
       ]_vars
  /\ \A p \in Slots : (pc[p] \in {"card_meta", "card_fetch"}) ~> (pc[p] = "idle")

\* C28 happens: a getCard that missed has been ended by an error of the store
\* with 500, after another that missed, and no request is suspended.
C28_Witness ==
  /\ out.op = "getCard"
  /\ out.status = 500
  /\ misses >= 2
  /\ \A p \in Slots : pc[p] = "idle"

====
